---- MODULE Spec2Model ----
(***************************************************************************)
(* Model of core/generator.py: the Generator orchestrator.                 *)
(*                                                                         *)
(* Python values are tagged tuples: None is <<"None">>, a str is           *)
(* <<"str", s>>, a list is <<"list", seq>>.  A mapping (dict) is a function *)
(* whose DOMAIN is the set of its keys.                                    *)
(*                                                                         *)
(* preset_prompt_kwargs is Given(d) or NoDict (None, which is also its     *)
(* default); output_processors is Processors(stages) or NoProcessors.      *)
(* The prompt_kwargs argument of call/acall is one of three forms:         *)
(* "default" (left out: the dict object that is the function's default),   *)
(* "none" (None passed explicitly) and "dict" (the caller's dict object).  *)
(* model_kwargs is LeftOut, ExplicitNone or Passed(d).                     *)
(*                                                                         *)
(* The training attribute is set by Component.__init__ and by train() /    *)
(* eval(), none of which generator.py defines: after construction it is    *)
(* "True", "False" or "unset" (no such attribute), whichever the base      *)
(* class leaves; reading it while unset raises AttributeError.             *)
(*                                                                         *)
(* call runs on the caller's thread from entry to return and is one step.  *)
(* acall is a coroutine: one step up to the await of model_client.acall,   *)
(* where its frame stays in flight, and one step from the resumption on.   *)
(***************************************************************************)
EXTENDS Integers, Sequences, FiniteSets, Bags, TLC

VARIABLES
    gens,       \* slot -> NoGen or the fields of a constructed Generator
    ctor,       \* outcome of the last Generator(...) construction attempt
    defCall,    \* the dict object that is call's default for prompt_kwargs
    defAcall,   \* the dict object that is acall's default for prompt_kwargs
    callerKw,   \* the dict object the caller passes as prompt_kwargs
    inflight,   \* bag of the acall frames suspended at the await
    last        \* what the last finished call/acall did and returned

vars == <<gens, ctor, defCall, defAcall, callerKw, inflight, last>>

-----------------------------------------------------------------------------
(* Bounds *)

MaxStages == 2          \* longest output-processor pipeline
MaxTrainable == 2       \* longest trainable_params list given to the constructor
MaxTrained == 1         \* longest trainable_params list of a generator that is called
NumCompletions == 2     \* distinct raw completions the backend may return
MaxInFlight == 2        \* most acalls suspended at the await at one time

-----------------------------------------------------------------------------
(* Python values *)

PyNone == <<"None">>
PyStr(s) == <<"str", s>>
PyList(l) == <<"list", l>>

EmptyDict == [k \in {} |-> PyNone]

NoDict == [given |-> FALSE, d |-> EmptyDict]
Given(d) == [given |-> TRUE, d |-> d]

LeftOut == [form |-> "default", d |-> EmptyDict]
ExplicitNone == [form |-> "none", d |-> EmptyDict]
Passed(d) == [form |-> "given", d |-> d]

NoProcessors == [given |-> FALSE, stages |-> <<>>]
Processors(stages) == [given |-> TRUE, stages |-> stages]

\* dict.update(other) / {**d, **other}: keys of other win
DictUpdate(d, other) ==
    [k \in (DOMAIN d) \cup (DOMAIN other) |->
        IF k \in DOMAIN other THEN other[k] ELSE d[k]]

\* dict.get(key, None)
DictGet(d, k) == IF k \in DOMAIN d THEN d[k] ELSE PyNone

SeqsUpTo(S, n) == UNION {[1..m -> S] : m \in 0..n}

-----------------------------------------------------------------------------
(* Collaborators: prompt renderer, model-kwargs merge, model client        *)

\* The template: literal text and variable slots, with surrounding blanks.
Template ==
    << <<"lit", " ">>, <<"lit", "Answer:">>, <<"var", "a">>,
       <<"var", "b">>, <<"lit", " ">> >>

\* Prompt.get_prompt_variables()
TemplateVars == {Template[i][2] : i \in {j \in DOMAIN Template : Template[j][1] = "var"}}

\* text of one value inside a rendered template
ValueText(v) == IF v = PyNone THEN "None" ELSE v[2]

\* Prompt.call(**kwargs) fails on a keyword the template does not declare
RenderFails(kwargs) == ~ (DOMAIN kwargs \subseteq TemplateVars)

\* Prompt.call(**kwargs): presets overridden by kwargs, undefined renders empty
RECURSIVE RenderFrom(_, _)
RenderFrom(i, values) ==
    IF i > Len(Template) THEN <<>>
    ELSE LET piece == Template[i]
             rest == RenderFrom(i + 1, values)
         IN  IF piece[1] = "lit" THEN <<piece[2]>> \o rest
             ELSE IF piece[2] \in DOMAIN values
                  THEN <<ValueText(values[piece[2]])>> \o rest
                  ELSE rest

Render(preset, kwargs) ==
    RenderFrom(1, DictUpdate(preset.d, kwargs))

\* str.strip() on the rendered text (a sequence of text pieces)
IsBlank(t) == t \in {" ", ""}

RECURSIVE StripLeft(_)
StripLeft(t) ==
    IF t = <<>> THEN <<>>
    ELSE IF IsBlank(Head(t)) THEN StripLeft(Tail(t)) ELSE t

RECURSIVE StripRight(_)
StripRight(t) ==
    IF t = <<>> THEN <<>>
    ELSE IF IsBlank(t[Len(t)]) THEN StripRight(SubSeq(t, 1, Len(t) - 1)) ELSE t

Strip(t) == StripRight(StripLeft(t))

\* compose_model_kwargs(default_model_kwargs, model_kwargs)
compose_model_kwargs(defaults, overrides) == DictUpdate(defaults, overrides)

\* model_client.convert_inputs_to_api_kwargs(input, model_kwargs, model_type)
convert_inputs_to_api_kwargs(input, model_kwargs, model_type) ==
    [input |-> input, model_kwargs |-> model_kwargs, model_type |-> model_type]

\* Generator.model_type
model_type == "LLM"

NoApiKwargs == convert_inputs_to_api_kwargs(<<>>, EmptyDict, model_type)

\* model_client.parse_chat_completion(completion) when it succeeds
ParsedResponse(c) == PyList(<<"content", ToString(c)>>)

\* str(completion)
StrOfCompletion(c) == PyStr(ToString(c))

\* str(e) of the exceptions the collaborators raise
Messages == {"", "boom"}

\* What the model client does during one call:
\*   call   "ok" | "raise"     model_client.call / acall
\*   c      the raw completion returned
\*   parse  "ok" | "raise"     model_client.parse_chat_completion
\*   copy   "ok" | "raise"     deepcopy of the parsed response
\*   msg    str(e) of whatever the client raises
Behaviours ==
    {[call |-> "raise", c |-> 1, parse |-> "ok", copy |-> "ok", msg |-> "boom"]}
    \cup {[call |-> "ok", c |-> c, parse |-> "raise", copy |-> "ok", msg |-> m] :
            c \in 1..NumCompletions, m \in Messages}
    \cup {[call |-> "ok", c |-> c, parse |-> "ok", copy |-> k, msg |-> "boom"] :
            c \in 1..NumCompletions, k \in {"ok", "raise"}}

-----------------------------------------------------------------------------
(* Output processors: None or a pipeline of stages                         *)
\*   "pure"         returns a new value, leaves its argument alone
\*   "mut"          changes its argument in place and returns it
\*   "raise"        raises an exception with a message
\*   "raise_empty"  raises an exception whose str() is empty

StageKinds == {"pure", "mut", "raise", "raise_empty"}

PyAppend(v, tok) == PyList(Append(v[2], tok))

\* Apply stages i.. to the running value.  cell is the object handed to the
\* pipeline; cur is the value flowing between stages; attached says cur is
\* still that very object.
RECURSIVE RunStages(_, _, _, _, _)
RunStages(stages, i, cell, cur, attached) ==
    IF i > Len(stages)
    THEN [raised |-> FALSE, msg |-> "", cell |-> cell, value |-> cur, applied |-> i - 1]
    ELSE CASE stages[i] = "pure" ->
                RunStages(stages, i + 1, cell, PyAppend(cur, "p"), FALSE)
           [] stages[i] = "mut" ->
                RunStages(stages, i + 1,
                          IF attached THEN PyAppend(cell, "m") ELSE cell,
                          PyAppend(cur, "m"), attached)
           [] stages[i] = "raise" ->
                [raised |-> TRUE, msg |-> "boom", cell |-> cell, value |-> cur, applied |-> i]
           [] stages[i] = "raise_empty" ->
                [raised |-> TRUE, msg |-> "", cell |-> cell, value |-> cur, applied |-> i]

\* self.output_processors(response)
RunProcessors(stages, response) == RunStages(stages, 1, response, response, TRUE)

-----------------------------------------------------------------------------
(* GeneratorOutput and Generator._post_call                                *)

GeneratorOutput(raw, data, err) ==
    [raw_response |-> raw, data |-> data, error_message |-> err]

NoOutput == GeneratorOutput(PyStr("<no-output>"), PyNone, PyNone)

\* raw_response once the processors have run: output holds the parsed
\* response, the pipeline ran on deepcopy(response)
RawAfterProcessing(parsed, copyAfter) == parsed

\* A plausible slip: the parse failure also fills data
ParseFailureWithData(c, msg) ==
    GeneratorOutput(StrOfCompletion(c), StrOfCompletion(c), PyStr(msg))

\* except-branch of the parse: GeneratorOutput(raw_response=str(completion),
\* error_message=str(e))
ParseFailureOutput(c, msg) ==
    GeneratorOutput(StrOfCompletion(c), PyNone, PyStr(msg))

\* A plausible slip: an exception without a message leaves no error_message
ProcessorErrorIfMessage(r) ==
    IF r.raised /\ r.msg # "" THEN PyStr(r.msg) ELSE PyNone

\* error_message after the pipeline: str(e) when it raised, else the default
ProcessorError(r) == IF r.raised THEN PyStr(r.msg) ELSE PyNone

\* _post_call: result is [raised, out, stagesRun]
PostCall(processors, b) ==
    IF b.parse = "raise"
    THEN [raised |-> FALSE, stagesRun |-> 0, out |-> ParseFailureOutput(b.c, b.msg)]
    ELSE IF b.copy = "raise"
    THEN [raised |-> TRUE, stagesRun |-> 0, out |-> NoOutput]
    ELSE LET parsed == ParsedResponse(b.c)
         IN  IF ~ processors.given
             THEN [raised |-> FALSE, stagesRun |-> 0,
                   out |-> GeneratorOutput(parsed, parsed, PyNone)]
             ELSE LET r == RunProcessors(processors.stages, parsed)
                  IN  [raised |-> FALSE, stagesRun |-> r.applied,
                       out |-> GeneratorOutput(
                                   RawAfterProcessing(parsed, r.cell),
                                   IF r.raised THEN r.cell ELSE r.value,
                                   ProcessorError(r))]

-----------------------------------------------------------------------------
(* Generator.__init__                                                      *)

\* The loop over trainable_params: result is [status, params, names]
RECURSIVE CtorLoop(_, _, _, _, _)
CtorLoop(tp, i, preset, params, names) ==
    IF i > Len(tp) THEN [status |-> "ok", params |-> params, names |-> names]
    ELSE IF tp[i] \notin TemplateVars
    THEN [status |-> "ValueError", params |-> params, names |-> names]
    ELSE IF ~ preset.given
    THEN [status |-> "AttributeError", params |-> params, names |-> names]
    ELSE CtorLoop(tp, i + 1, preset,
                  DictUpdate(params, [k \in {tp[i]} |-> DictGet(preset.d, tp[i])]),
                  Append(names, tp[i]))

\* What super().__init__() may leave in self.training
TrainingAtInit == {"unset", "False", "True"}

\* No Generator object: construction has not succeeded
NoGen ==
    [alive |-> FALSE, model_kwargs |-> EmptyDict, preset_prompt_kwargs |-> NoDict,
     trainable_params |-> <<>>, params |-> EmptyDict, training |-> "unset",
     output_processors |-> NoProcessors]

\* Generator(model_client, model_kwargs, template, preset_prompt_kwargs,
\*           trainable_params, output_processors): [status, gen].
\* tr is self.training as super().__init__() left it.
Init__(mk, preset, tp, procs, tr) ==
    IF "model" \notin DOMAIN mk
    THEN [status |-> "ValueError", gen |-> NoGen]
    ELSE LET r == CtorLoop(tp, 1, preset, EmptyDict, <<>>)
         IN  IF r.status # "ok"
             THEN [status |-> r.status, gen |-> NoGen]
             ELSE [status |-> "ok",
                   gen |-> [alive |-> TRUE,
                            model_kwargs |-> mk,
                            preset_prompt_kwargs |-> preset,
                            trainable_params |-> r.names,
                            params |-> r.params,
                            training |-> tr,
                            output_processors |-> procs]]

-----------------------------------------------------------------------------
(* Generator.call and Generator.acall                                      *)

\* Component.state_dict(): the names of the Parameters the Generator holds
state_dict(g) == DOMAIN g.params

\* {param: getattr(self, param).data for param in self.state_dict()}
TrainedKwargs(g) == [p \in state_dict(g) |-> g.params[p]]

\* A plausible slip: the caller's values win over the trained ones
CallerWinsPromptKwargs(g, pk) ==
    IF g.training = "True" THEN DictUpdate(TrainedKwargs(g), pk) ELSE pk

\* The contents of the prompt_kwargs dict after call's training block
CallPromptKwargs(g, pk) ==
    IF g.training = "True" THEN DictUpdate(pk, TrainedKwargs(g)) ELSE pk

\* acall has no training block
AcallPromptKwargs(g, pk) == pk

\* A plausible slip: the caller's values are stored into the Parameters
ParamsWrittenBack(g, pk) ==
    [p \in DOMAIN g.params |-> IF p \in DOMAIN pk THEN pk[p] ELSE g.params[p]]

\* The Parameter data after a call: the call only reads it
ParamsAfterCall(g, pk) == g.params

\* _pre_call(prompt_kwargs, model_kwargs): pkform is the form of the
\* prompt_kwargs argument and kw the contents of that dict (when it is one)
PreCall(g, pkform, kw, mk) ==
    IF pkform = "none"
    THEN [ok |-> FALSE, raisedBy |-> "prompt_kwargs", exc |-> "TypeError",
          api |-> NoApiKwargs]
    ELSE IF RenderFails(kw)
    THEN [ok |-> FALSE, raisedBy |-> "render", exc |-> "RenderError",
          api |-> NoApiKwargs]
    ELSE IF mk.form = "none"
    THEN [ok |-> FALSE, raisedBy |-> "model_kwargs", exc |-> "TypeError",
          api |-> NoApiKwargs]
    ELSE [ok |-> TRUE, raisedBy |-> "nobody", exc |-> "none",
          api |-> convert_inputs_to_api_kwargs(
                      Strip(Render(g.preset_prompt_kwargs, kw)),
                      compose_model_kwargs(g.model_kwargs, mk.d),
                      model_type)]

OkBehaviour == [call |-> "ok", c |-> 1, parse |-> "ok", copy |-> "ok", msg |-> "boom"]

\* The record of a call that raised before the model client was called
RaisedEarly(n, op, s, pkform, mk, before, by, exc) ==
    [n |-> n, op |-> op, s |-> s, form |-> pkform, mk |-> mk, pkBefore |-> before,
     b |-> OkBehaviour, api |-> NoApiKwargs, clientCalls |-> 0, stagesRun |-> 0,
     processors |-> NoProcessors, out |-> NoOutput,
     status |-> "raised", raisedBy |-> by, exc |-> exc]

\* The client call and _post_call on the request api: the record of the
\* finished call.  processors is self.output_processors as _post_call reads it.
Finish(n, op, s, pkform, mk, before, api, processors, b) ==
    LET base == [n |-> n, op |-> op, s |-> s, form |-> pkform, mk |-> mk,
                 pkBefore |-> before, b |-> b, api |-> api, clientCalls |-> 1]
    IN  IF b.call = "raise"
        THEN base @@ [status |-> "raised", raisedBy |-> "client", exc |-> "Exception",
                      stagesRun |-> 0, processors |-> NoProcessors, out |-> NoOutput]
        ELSE LET r == PostCall(processors, b)
             IN  base @@ [status |-> IF r.raised THEN "raised" ELSE "returned",
                          raisedBy |-> IF r.raised THEN "copy" ELSE "nobody",
                          exc |-> IF r.raised THEN "Exception" ELSE "none",
                          stagesRun |-> r.stagesRun, processors |-> processors,
                          out |-> r.out]

\* n counts the finished calls modulo 2; pkBefore is recorded for call, whose
\* training block may change the mapping, and left empty for acall
NoCall ==
    [n |-> 0, op |-> "none", s |-> 0, form |-> "default", mk |-> LeftOut,
     pkBefore |-> EmptyDict, b |-> OkBehaviour, api |-> NoApiKwargs,
     clientCalls |-> 0, stagesRun |-> 0, processors |-> NoProcessors,
     out |-> NoOutput, status |-> "none", raisedBy |-> "nobody", exc |-> "none"]

\* The frame of an acall suspended at `await self.model_client.acall(...)`
Frame(s, pkform, mk, api) == [s |-> s, form |-> pkform, mk |-> mk, api |-> api]

NoCtor ==
    [status |-> "none", clientOps |-> 0,
     args |-> [model_kwargs |-> EmptyDict, preset_prompt_kwargs |-> NoDict,
               trainable_params |-> <<>>, output_processors |-> NoProcessors]]

-----------------------------------------------------------------------------
(* Input domains *)

Slots == {1}
Values == {PyStr("x"), PyStr("y")}

WithModel == [k \in {"model"} |-> "m1"]
PresetA == Given([k \in {"a"} |-> PyStr("x")])
KwA == [k \in {"a"} |-> PyStr("y")]
KwZ == [k \in {"z"} |-> PyStr("x")]

\* construction inputs, valid and invalid
ModelKwargsChoices == {EmptyDict, [k \in {"temperature"} |-> "0.5"], WithModel}
PresetChoices == {NoDict, Given(EmptyDict), PresetA}
TrainableChoices == SeqsUpTo({"a", "b", "z"}, MaxTrainable)
ProcessorChoices ==
    {NoProcessors} \cup {Processors(st) : st \in SeqsUpTo(StageKinds, MaxStages)}

\* construction inputs of the generators that are then called
TrainableDeclared == SeqsUpTo(TemplateVars, MaxTrained)
FewProcessors == {NoProcessors, Processors(<<"mut", "raise">>)}

\* call inputs
PkForms == {"default", "none", "dict"}
FewBehaviours == {b \in Behaviours : b.c = 1 /\ b.parse = "ok" /\ b.copy = "ok"}

-----------------------------------------------------------------------------
(* Actions *)

Init ==
    /\ gens = [s \in Slots |-> NoGen]
    /\ ctor = NoCtor
    /\ defCall = EmptyDict
    /\ defAcall = EmptyDict
    /\ callerKw = EmptyDict
    /\ inflight = EmptyBag
    /\ last = NoCall

\* g = Generator(...)
Construct(s, mks, presets, tps, procss) ==
    /\ ~ gens[s].alive
    /\ \E mk \in mks, preset \in presets, tp \in tps, procs \in procss,
          tr \in TrainingAtInit :
         LET r == Init__(mk, preset, tp, procs, tr)
         IN  /\ ctor' = [status |-> r.status, clientOps |-> 0,
                         args |-> [model_kwargs |-> mk, preset_prompt_kwargs |-> preset,
                                   trainable_params |-> tp, output_processors |-> procs]]
             /\ gens' = [gens EXCEPT ![s] = r.gen]
    /\ UNCHANGED <<defCall, defAcall, callerKw, inflight, last>>

\* g.train() / g.eval()
SetTraining(s) ==
    /\ gens[s].alive
    /\ \E flag \in {"True", "False"} :
         /\ flag # gens[s].training
         /\ gens' = [gens EXCEPT ![s].training = flag]
    /\ UNCHANGED <<ctor, defCall, defAcall, callerKw, inflight, last>>

\* getattr(g, name).data = v, by the external training procedure
SetParam(s) ==
    /\ gens[s].alive
    /\ \E p \in DOMAIN gens[s].params, v \in Values :
         /\ gens[s].params[p] # v
         /\ gens' = [gens EXCEPT ![s].params[p] = v]
    /\ UNCHANGED <<ctor, defCall, defAcall, callerKw, inflight, last>>

\* the caller refills its own dict: d.clear(); d.update(contents)
CallerFill(contents) ==
    /\ \E d \in contents :
         /\ d # callerKw
         /\ callerKw' = d
    /\ UNCHANGED <<gens, ctor, defCall, defAcall, inflight, last>>

\* g.call(prompt_kwargs, model_kwargs)
Call(s, pkforms, mks, bs) ==
    /\ gens[s].alive
    /\ \E pkform \in pkforms, mk \in mks, b \in bs :
         LET g == gens[s]
             n == 1 - last.n
             before == IF pkform = "dict" THEN callerKw ELSE defCall
         IN  IF g.training = "unset"
             THEN \* `if self.training` finds no such attribute
                  /\ last' = RaisedEarly(n, "call", s, pkform, mk, EmptyDict,
                                         "training", "AttributeError")
                  /\ UNCHANGED <<gens, defCall, callerKw>>
             ELSE IF pkform = "none" /\ g.training = "True"
             THEN \* None.update(...)
                  /\ last' = RaisedEarly(n, "call", s, pkform, mk, EmptyDict,
                                         "prompt_kwargs", "AttributeError")
                  /\ UNCHANGED <<gens, defCall, callerKw>>
             ELSE LET kw == IF pkform = "none" THEN EmptyDict
                            ELSE CallPromptKwargs(g, before)
                      seen == IF pkform = "none" THEN EmptyDict ELSE before
                      pre == PreCall(g, pkform, kw, mk)
                  IN  /\ last' = IF pre.ok
                                 THEN Finish(n, "call", s, pkform, mk, seen, pre.api,
                                             g.output_processors, b)
                                 ELSE RaisedEarly(n, "call", s, pkform, mk, seen,
                                                  pre.raisedBy, pre.exc)
                      /\ defCall' = IF pkform = "default" THEN kw ELSE defCall
                      /\ callerKw' = IF pkform = "dict" THEN kw ELSE callerKw
                      /\ gens' = [gens EXCEPT ![s].params = ParamsAfterCall(g, seen)]
    /\ UNCHANGED <<ctor, defAcall, inflight>>

\* task = g.acall(prompt_kwargs, model_kwargs), run up to the await
AcallStart(s, pkforms, mks) ==
    /\ gens[s].alive
    /\ BagCardinality(inflight) < MaxInFlight
    /\ \E pkform \in pkforms, mk \in mks :
         LET g == gens[s]
             before == IF pkform = "dict" THEN callerKw ELSE defAcall
             kw == IF pkform = "none" THEN EmptyDict ELSE AcallPromptKwargs(g, before)
             pre == PreCall(g, pkform, kw, mk)
         IN  /\ IF pre.ok
                THEN /\ inflight' = inflight (+) SetToBag({Frame(s, pkform, mk, pre.api)})
                     /\ last' = last
                ELSE /\ inflight' = inflight
                     /\ last' = RaisedEarly(1 - last.n, "acall", s, pkform, mk, EmptyDict,
                                            pre.raisedBy, pre.exc)
             /\ defAcall' = IF pkform = "default" THEN kw ELSE defAcall
             /\ callerKw' = IF pkform = "dict" THEN kw ELSE callerKw
             /\ gens' = [gens EXCEPT ![s].params = ParamsAfterCall(g, kw)]
    /\ UNCHANGED <<ctor, defCall>>

\* model_client.acall answers one suspended acall, which runs to its end
AcallResume(bs) ==
    /\ \E f \in BagToSet(inflight), b \in bs :
         /\ inflight' = inflight (-) SetToBag({f})
         /\ last' = Finish(1 - last.n, "acall", f.s, f.form, f.mk, EmptyDict, f.api,
                           gens[f.s].output_processors, b)
    /\ UNCHANGED <<gens, ctor, defCall, defAcall, callerKw>>

\* Synchronous calls on generators with trainable parameters
Next ==
    \/ CallerFill({EmptyDict, KwA})
    \/ \E s \in Slots :
        \/ Construct(s, {WithModel}, {NoDict, PresetA}, TrainableDeclared, {NoProcessors})
        \/ SetTraining(s)
        \/ SetParam(s)
        \/ Call(s, PkForms, {LeftOut, Passed([k \in {"model"} |-> "m2"])}, {OkBehaviour})

Spec == Init /\ [][Next]_vars

\* Calls and suspended acalls interleaved with training
NextAsync ==
    \/ CallerFill({EmptyDict, KwA, KwZ})
    \/ AcallResume(FewBehaviours)
    \/ \E s \in Slots :
        \/ Construct(s, {WithModel}, {PresetA}, {<<>>, <<"a">>}, FewProcessors)
        \/ SetTraining(s)
        \/ SetParam(s)
        \/ Call(s, PkForms, {LeftOut}, FewBehaviours)
        \/ AcallStart(s, PkForms, {LeftOut})

SpecAsync == Init /\ [][NextAsync]_vars

\* Construction, over valid and invalid arguments
NextCtor ==
    \E s \in Slots :
        Construct(s, ModelKwargsChoices, PresetChoices, TrainableChoices, FewProcessors)

SpecCtor == Init /\ [][NextCtor]_vars

\* Post-processing, over every pipeline and every client behaviour
NextPost ==
    \/ AcallResume(Behaviours)
    \/ \E s \in Slots :
        \/ Construct(s, {WithModel}, {PresetA}, {<<>>}, ProcessorChoices)
        \/ Call(s, {"default"}, {LeftOut, ExplicitNone}, Behaviours)
        \/ AcallStart(s, {"default"}, {LeftOut, ExplicitNone})

SpecPost == Init /\ [][NextPost]_vars

-----------------------------------------------------------------------------
(* Helpers of the properties *)

Called == last.op # "none"
Returned == last.status = "returned"
RaiseKinds == {"raise", "raise_empty"}
Stages == last.processors.stages
ParsedNow == ParsedResponse(last.b.c)

\* the pipeline ran and one of its stages raised
PipelineRaised ==
    /\ Returned
    /\ last.b.parse = "ok"
    /\ last.processors.given
    /\ \E i \in DOMAIN Stages : Stages[i] \in RaiseKinds

FirstRaise == CHOOSE i \in DOMAIN Stages :
    Stages[i] \in RaiseKinds /\ \A j \in 1..(i - 1) : Stages[j] \notin RaiseKinds

\* what the stages before the failing one returned
LastGoodValue == RunProcessors(SubSeq(Stages, 1, FirstRaise - 1), ParsedNow).value

-----------------------------------------------------------------------------
(* Properties *)

\* C1: call and acall raise only when rendering the prompt fails: once the
\* prompt is rendered and the request is handed to the model client, a
\* failure of the client's call, of its parser, of the copy step or of the
\* output processor is returned as a GeneratorOutput with error_message set.
C1_RaisesOnlyOnRender ==
    (Called /\ last.clientCalls > 0) =>
        /\ last.status = "returned"
        /\ (last.b.parse = "raise" \/ PipelineRaised) => last.out.error_message # PyNone

\* C2: on the same generator state, arguments and client behaviour, acall
\* renders the same prompt and sends the same backend arguments as call
\* (and so, through the common _post_call, returns the same GeneratorOutput).
C2_AcallSameAsCall ==
    [][\A f \in BagToSet(inflight') :
          CopiesIn(f, inflight') > CopiesIn(f, inflight) =>
              LET g == gens[f.s]
                  before == IF f.form = "dict" THEN callerKw ELSE defCall
              IN  f.api = PreCall(g, f.form, CallPromptKwargs(g, before), f.mk).api]_vars

\* C3: when the output processor raises on a successfully parsed response R
\* the call raises no exception and returns a GeneratorOutput whose
\* raw_response is R, whose error_message is non-empty, and whose data is the
\* last value the pipeline produced before the failing stage (R itself when
\* the first stage fails).
C3_DataIsLastGoodValue ==
    (/\ Called
     /\ last.clientCalls > 0
     /\ last.b.call = "ok" /\ last.b.parse = "ok" /\ last.b.copy = "ok"
     /\ last.processors.given
     /\ \E i \in DOMAIN Stages : Stages[i] \in RaiseKinds) =>
        /\ Returned
        /\ last.out.raw_response = ParsedNow
        /\ last.out.error_message \notin {PyNone, PyStr("")}
        /\ last.out.data = LastGoodValue

\* C4: when the parser raises on a raw completion the call returns, without
\* a second model call and without running the output processor, an output
\* whose raw_response is str(completion), whose error_message is the failure
\* description and whose data is unset.
C4_ParseFailure ==
    (Called /\ last.clientCalls > 0 /\ last.b.call = "ok" /\ last.b.parse = "raise") =>
        /\ Returned
        /\ last.out.raw_response = PyStr(ToString(last.b.c))
        /\ last.out.error_message = PyStr(last.b.msg)
        /\ last.out.data = PyNone
        /\ last.clientCalls = 1
        /\ last.stagesRun = 0

\* the parser raised on a generator that has an output processor
C4_Witness ==
    /\ Returned
    /\ last.b.parse = "raise"
    /\ last.processors.given
    /\ Len(Stages) > 0
    /\ last.out.data = PyNone

\* C5: in training mode call renders with the value held by every trainable
\* Parameter, whether or not the caller supplied a value for that name; out
\* of training mode the caller's prompt_kwargs are rendered as given.
C5_TrainedValuesWin ==
    [][(last'.n # last.n /\ last'.op = "call" /\ last'.clientCalls > 0) =>
          LET g == gens[last'.s]
              given == IF last'.form = "dict" THEN callerKw ELSE defCall
              trained == [p \in {g.trainable_params[i] : i \in DOMAIN g.trainable_params}
                              |-> g.params[p]]
              values == IF g.training = "True"
                        THEN [k \in DOMAIN given \cup DOMAIN trained |->
                                 IF k \in DOMAIN trained THEN trained[k] ELSE given[k]]
                        ELSE given
          IN  last'.api.input = Strip(Render(g.preset_prompt_kwargs, values))]_vars

\* a training-mode call whose caller supplied another value for a trainable
\* name was rendered with the Parameter's value
C5_Witness ==
    /\ last.op = "call"
    /\ Returned
    /\ last.form = "dict"
    /\ gens[last.s].training = "True"
    /\ "a" \in DOMAIN gens[last.s].params
    /\ "a" \in DOMAIN last.pkBefore
    /\ last.pkBefore["a"] # gens[last.s].params["a"]
    /\ callerKw["a"] = gens[last.s].params["a"]
    /\ last.api.input = <<"Answer:", ValueText(gens[last.s].params["a"])>>

\* C6: when model_kwargs has a model and every trainable name is declared by
\* the template, construction succeeds for every preset_prompt_kwargs,
\* including none, with one Parameter per name holding the preset value or
\* None, and the names recorded in order.
C6_ConstructionSucceeds ==
    LET a == ctor.args
        tp == a.trainable_params
    IN  (/\ ctor.status # "none"
         /\ "model" \in DOMAIN a.model_kwargs
         /\ \A i \in DOMAIN tp : tp[i] \in TemplateVars) =>
            /\ ctor.status = "ok"
            /\ \E s \in Slots :
                 /\ gens[s].alive
                 /\ gens[s].trainable_params = tp
                 /\ DOMAIN gens[s].params = {tp[i] : i \in DOMAIN tp}
                 /\ \A p \in DOMAIN gens[s].params :
                        gens[s].params[p] = DictGet(a.preset_prompt_kwargs.d, p)

\* C7: construction fails with a ValueError, before any model-client
\* operation, whenever model_kwargs has no model key and whenever
\* trainable_params has a name the template does not declare.
C7_ConfigurationError ==
    LET a == ctor.args
        tp == a.trainable_params
    IN  (/\ ctor.status # "none"
         /\ \/ "model" \notin DOMAIN a.model_kwargs
            \/ \E i \in DOMAIN tp : tp[i] \notin TemplateVars) =>
            /\ ctor.status = "ValueError"
            /\ ctor.clientOps = 0
            /\ \A s \in Slots : ~ gens[s].alive

\* C8: a returned GeneratorOutput has error_message set exactly when the
\* parser or the output processor raised; when neither raised and no
\* processor is configured, data equals the parsed response.
C8_ErrorIffFailure ==
    Returned =>
        LET failed == last.b.parse = "raise" \/ PipelineRaised
        IN  /\ (last.out.error_message # PyNone) <=> failed
            /\ (~ failed /\ ~ last.processors.given)
                   => last.out.data = ParsedNow

\* an output processor raised an exception whose message is empty
C8_Witness ==
    /\ PipelineRaised
    /\ Stages[FirstRaise] = "raise_empty"
    /\ last.out.error_message = PyStr("")

C10_NoLeakBetweenCalls ==
    [][(last'.n # last.n \/ inflight' # inflight) =>
          /\ callerKw' = callerKw
          /\ defCall' = defCall
          /\ defAcall' = defAcall
          /\ (/\ last'.n # last.n
              /\ last'.op = "call"
              /\ last'.form = "default"
              /\ last'.clientCalls > 0
              /\ gens[last'.s].training = "False")
                => last'.api.input =
                       Strip(Render(gens[last'.s].preset_prompt_kwargs, EmptyDict))
          /\ \A f \in BagToSet(inflight') :
                (/\ CopiesIn(f, inflight') > CopiesIn(f, inflight)
                 /\ f.form = "default"
                 /\ gens[f.s].training # "True")
                   => f.api.input =
                          Strip(Render(gens[f.s].preset_prompt_kwargs, EmptyDict))]_vars

====
